---- MODULE Spec2Model ----
(***************************************************************************)
(* Kidilan Traveler Dashboard: the session store (AppProvider), the        *)
(* product list controller (ProductTable) and the website-content          *)
(* PortfolioManager.                                                       *)
(*                                                                         *)
(* The repository holds two builds of the session store:                   *)
(*   src/contexts/AppContext.tsx  initialize() only rehydrates the token   *)
(*   src/unnamed/part_002         initialize() also awaits fetchUser()     *)
(* The variable `build` says which of the two is mounted; it never changes.*)
(* Everything else in the two files is identical.                          *)
(***************************************************************************)
EXTENDS Integers, Sequences, FiniteSets, TLC

\* ------------------------------------------------------------------ bounds
MaxTimers == 2       \* pending setTimeout callbacks of showToast
MaxInFlight == 2     \* network requests of ProductTable in flight at once
MaxEvents == 6       \* UI events the admin performs on the products page
MaxOfferOps == 3     \* addOffer/updateOffer/deleteOffer calls on the mock store
MaxOfferCalls == 2   \* getOffers promises pending at once

\* --------------------------------------------------------------- constants
Null == "NULL"                      \* JavaScript null / a missing storage key
Builds == {"AppContext", "part_002"}
Tokens == {"t1", "t2"}
Users == {"alice", "bob"}           \* a User object, named by its name field
Corrupt == "{corrupt"               \* a stored string JSON.parse rejects
Searches == {"", "a"}               \* strings typed into the header search

validPages ==
  {"dashboard", "products", "categories", "orders", "reports", "offers",
   "websiteContent", "settings"}
Hashes == {"", "bogus", "products", "orders", "settings"}

PRODUCTS_PER_PAGE == 5
Totals == {0, PRODUCTS_PER_PAGE, PRODUCTS_PER_PAGE + 1}   \* totalCount values the server reports
SortKeys == {"name", "price"}       \* the column headers clicked
ProductIds == {"p1"}                \* the row acted on

LogoutMsg == "You have been successfully logged out."
CachedMsg == "Using cached profile (offline mode)."
WelcomeMsg(u) == IF u = "alice" THEN "Welcome back, alice!" ELSE "Welcome back, bob!"

\* JSON.stringify(user) / JSON.parse(text) on the cached profile
JSONstringify(u) == IF u = "alice" THEN "{\"name\":\"alice\"}" ELSE "{\"name\":\"bob\"}"
JSONparses(s) == \E u \in Users : JSONstringify(u) = s
JSONparse(s) == CHOOSE u \in Users : JSONstringify(u) = s

VARIABLES
  build,            \* which AppProvider source is mounted
  pc,               \* "boot": effect not yet run, "getMe": awaiting fetchUser, "ready"
  activePage, searchQuery, toastMessage, user, isAuthenticated, token, isLoading,
  toastTimers,      \* number of showToast timers not yet fired
  sessionStorage,   \* value of 'authToken' in this tab's sessionStorage
  localStorage,     \* [authToken, authUser] in the shared localStorage
  hash,             \* window.location.hash without '#'
  loginPending,     \* an apiLogin request is in flight
  apiCall,          \* endpoint and Authorization header of the request apiRequest sent last
  loggedOut,        \* the last login or logout in this browser, in any tab, was a logout
  \* ---- ProductTable (and the ProductModal it owns)
  mounted,          \* the mount effect of ProductTable has run
  products,         \* the displayed page of products: its length and the query it answers
  totalProducts, currentPage, sortConfig,
  tableLoading,     \* ProductTable's own isLoading
  error, isModalOpen, editingProduct, productToDelete,
  debouncedSearchQuery,
  debouncePending,  \* useDebounce's timer is armed
  prevFiltersRef,   \* prevFiltersRef.current
  isSubmitting,     \* ProductModal's isSubmitting
  inflight,         \* requests of ProductTable awaiting their response, oldest first
  events,           \* UI events performed so far (bounds the exploration)
  issued,           \* the getProducts request sent last
  \* ---- WebsiteContentPage and its PortfolioManager
  pmMounted,        \* the mount effect of PortfolioManager has run
  activeTab,        \* WebsiteContentPage's tab = PortfolioManager's section prop
  portfolioItems,   \* the section whose items are displayed, and how many
  pmIsLoading, pmError, pmIsModalOpen, itemToDelete, itemToEdit,
  pmIsSubmitting,   \* PortfolioItemModal's isSubmitting
  pmInflight,       \* portfolioApi requests awaiting their response, oldest first
  \* ---- ProductModal's form
  formData,         \* the fields validate() reads
  formErrors,       \* the keys of ProductModal's errors object
  \* ---- the mock offers store of mockApi.ts
  offersHeap,       \* the Offer[] arrays allocated so far; an index is a reference
  mockOffers,       \* the module variable: a reference into offersHeap
  offerCalls,       \* getOffers promises not yet resolved, oldest first
  offersResult,     \* what the getOffers promise resolved last gave its caller
  offerOps,         \* addOffer/updateOffer/deleteOffer calls made so far
  \* ---- apiRequest after fetch()
  response,         \* the Response fetch() resolved with, while apiRequest handles it
  outcome           \* how the apiRequest call settled last

sessionVars ==
  <<build, pc, activePage, searchQuery, toastMessage, user, isAuthenticated,
    token, isLoading, toastTimers, sessionStorage, localStorage, hash,
    loginPending, apiCall, loggedOut>>

tableVars ==
  <<mounted, products, totalProducts, currentPage, sortConfig, tableLoading, error,
    isModalOpen, editingProduct, productToDelete, debouncedSearchQuery,
    debouncePending, prevFiltersRef, isSubmitting, inflight, events, issued>>

pmVars ==
  <<pmMounted, activeTab, portfolioItems, pmIsLoading, pmError, pmIsModalOpen,
    itemToDelete, itemToEdit, pmIsSubmitting, pmInflight>>

formVars == <<formData, formErrors>>

offerVars == <<offersHeap, mockOffers, offerCalls, offersResult, offerOps>>

httpVars == <<response, outcome>>

auxVars == <<formVars, offerVars, httpVars>>

vars == <<sessionVars, tableVars, pmVars, auxVars>>

initialSort == [key |-> "_id", direction |-> "descending"]
NoProducts == [len |-> 0, page |-> 0, search |-> "", sort |-> initialSort]
NoRequest == [page |-> 0, search |-> "", sort |-> initialSort]

\* ProductTable before its first render
TableUnmounted ==
  /\ mounted = FALSE
  /\ products = NoProducts
  /\ totalProducts = 0
  /\ currentPage = 1
  /\ sortConfig = initialSort
  /\ tableLoading = TRUE
  /\ error = Null
  /\ isModalOpen = FALSE
  /\ editingProduct = Null
  /\ productToDelete = Null
  /\ debouncedSearchQuery = ""
  /\ debouncePending = FALSE
  /\ prevFiltersRef = [search |-> "", sort |-> initialSort]
  /\ isSubmitting = FALSE
  /\ inflight = <<>>
  /\ events = 0
  /\ issued = NoRequest

NoItems == [section |-> Null, len |-> 0]

\* newProductInitialState of ProductModal
newProductInitialState ==
  [name |-> "", category |-> "", price |-> "", stock |-> "", specifications |-> 0,
   description |-> "", subHeading |-> ""]

\* the parts of the dashboard a specification does not exercise, at rest
\* let mockOffers: Offer[] = [...]: two offers, an offer being [id, title]
InitialOffers == <<[id |-> "1", title |-> "a"], [id |-> "2", title |-> "a"]>>

NoResult == [data |-> <<>>, atCall |-> <<>>, resolved |-> FALSE]

\* the module-level state of mockApi.ts after import
OffersLoaded ==
  /\ offersHeap = <<InitialOffers>>
  /\ mockOffers = 1
  /\ offerCalls = <<>>
  /\ offersResult = NoResult
  /\ offerOps = 0

\* a response body: text that is not JSON, the JSON value null, or a JSON object
\* with or without a message member
NoBody == [kind |-> "none", hasMessage |-> FALSE, message |-> ""]
NoResponse == [status |-> 0, body |-> NoBody]
\* how a call settles: returns data, or throws an error of a class with a message
NoOutcome == [kind |-> "none", error |-> "", message |-> "", data |-> NoBody]

HttpIdle ==
  /\ response = NoResponse
  /\ outcome = NoOutcome

FormIdle ==
  /\ formData = newProductInitialState
  /\ formErrors = {}

AuxIdle ==
  /\ FormIdle
  /\ OffersLoaded
  /\ HttpIdle
NoCall == [endpoint |-> Null, Authorization |-> Null]

\* PortfolioManager before its first render
PortfolioUnmounted ==
  /\ pmMounted = FALSE
  /\ activeTab = "hero"
  /\ portfolioItems = NoItems
  /\ pmIsLoading = TRUE
  /\ pmError = Null
  /\ pmIsModalOpen = FALSE
  /\ itemToDelete = Null
  /\ itemToEdit = Null
  /\ pmIsSubmitting = FALSE
  /\ pmInflight = <<>>

\* ------------------------------------------------------------ AppProvider
\* one more UI event of the admin, within the budget
UserEvent == events < MaxEvents /\ events' = events + 1

\* useState initialiser of activePage
initialPage(h) == IF h \in validPages THEN h ELSE "products"

\* the state of a freshly mounted provider; storage and URL are what the
\* browser holds at page load
Mounted ==
  /\ pc = "boot"
  /\ activePage = initialPage(hash)
  /\ searchQuery = ""
  /\ toastMessage = ""
  /\ user = Null
  /\ isAuthenticated = FALSE
  /\ token = Null
  /\ isLoading = TRUE
  /\ toastTimers = 0
  /\ loginPending = FALSE
  /\ apiCall = NoCall

Init ==
  /\ build \in Builds
  /\ sessionStorage \in Tokens \cup {Null}
  /\ localStorage \in [authToken : Tokens \cup {Null},
                       authUser : {Null, Corrupt} \cup {JSONstringify(u) : u \in Users}]
  /\ hash \in Hashes
  /\ loggedOut = FALSE
  /\ Mounted
  /\ TableUnmounted
  /\ PortfolioUnmounted
  /\ AuxIdle

\* showToast(message): set the message and arm a 3000 ms timer
showToast(m) ==
  /\ toastTimers < MaxTimers
  /\ toastMessage' = m
  /\ toastTimers' = toastTimers + 1

\* the timer callback of showToast
ToastTimerFire ==
  /\ toastTimers > 0
  /\ toastMessage' = ""
  /\ toastTimers' = toastTimers - 1
  /\ UNCHANGED <<build, pc, activePage, searchQuery, user, isAuthenticated, token,
                 isLoading, sessionStorage, localStorage, hash, loginPending, apiCall, loggedOut>>
  /\ UNCHANGED <<tableVars, pmVars, auxVars>>

\* a lookup that prefers localStorage
storedToken_localFirst ==
  IF localStorage.authToken # Null THEN localStorage.authToken ELSE sessionStorage

\* the token initialize() finds: sessionStorage first, then localStorage
storedToken == IF sessionStorage # Null THEN sessionStorage ELSE localStorage.authToken

\* the template literal `Bearer ${token}`
Bearer(t) == IF t = "t1" THEN "Bearer t1" ELSE "Bearer t2"

\* headers["Authorization"] that looks the token up in localStorage only
Authorization_localOnly(ss, ls) ==
  IF ls.authToken # Null THEN Bearer(ls.authToken) ELSE Null

\* headers["Authorization"] as apiRequest builds it from the two storage tiers;
\* Null when the header is not set
Authorization(ss, ls) ==
  LET t == IF ss # Null THEN ss ELSE ls.authToken
  IN  IF t # Null THEN Bearer(t) ELSE Null

\* apiRequest(endpoint) up to its fetch(), with the storage as the call finds it
apiRequest(endpoint, ss, ls) ==
  apiCall' = [endpoint |-> endpoint, Authorization |-> Authorization(ss, ls)]

\* initialize(), up to its first await (part_002) or to its end (AppContext)
initialize ==
  /\ pc = "boot"
  /\ sessionStorage' = storedToken
  /\ IF storedToken # Null
       THEN /\ token' = storedToken
            /\ isAuthenticated' = TRUE
            /\ IF build = "part_002"
                 THEN /\ pc' = "getMe" /\ isLoading' = TRUE
                      /\ apiRequest("/auth/me", sessionStorage', localStorage)
                 ELSE /\ pc' = "ready" /\ isLoading' = FALSE
                      /\ UNCHANGED apiCall
       ELSE /\ UNCHANGED <<token, isAuthenticated, apiCall>>
            /\ pc' = "ready"
            /\ isLoading' = FALSE
  /\ UNCHANGED <<build, activePage, searchQuery, toastMessage, user, toastTimers,
                 localStorage, hash, loginPending, loggedOut>>
  /\ UNCHANGED <<tableVars, pmVars, auxVars>>

\* fetchUser() resolved inside initialize(): getMe returned userData
GetMeResolve(u) ==
  /\ pc = "getMe"
  /\ user' = u
  /\ localStorage' = [localStorage EXCEPT !.authUser = JSONstringify(u)]
  /\ isLoading' = FALSE
  /\ pc' = "ready"
  /\ UNCHANGED <<build, activePage, searchQuery, toastMessage, isAuthenticated, token,
                 toastTimers, sessionStorage, hash, loginPending, apiCall, loggedOut>>
  /\ UNCHANGED <<tableVars, pmVars, auxVars>>

\* a catch block that shows the toast but never calls setUser(parsed)
GetMeReject_noFallback ==
  /\ pc = "getMe"
  /\ IF localStorage.authUser # Null /\ JSONparses(localStorage.authUser)
       THEN /\ UNCHANGED user
            /\ showToast(CachedMsg)
       ELSE UNCHANGED <<user, toastMessage, toastTimers>>
  /\ isLoading' = FALSE
  /\ pc' = "ready"
  /\ UNCHANGED <<build, activePage, searchQuery, isAuthenticated, token,
                 sessionStorage, localStorage, hash, loginPending, apiCall, loggedOut>>
  /\ UNCHANGED <<tableVars, pmVars, auxVars>>

\* a catch block that signs the admin out when no cached profile is usable
GetMeReject_forcesLogout ==
  /\ pc = "getMe"
  /\ IF localStorage.authUser # Null /\ JSONparses(localStorage.authUser)
       THEN /\ user' = JSONparse(localStorage.authUser)
            /\ showToast(CachedMsg)
            /\ UNCHANGED <<isAuthenticated, token, sessionStorage, localStorage>>
       ELSE /\ isAuthenticated' = FALSE
            /\ token' = Null
            /\ sessionStorage' = Null
            /\ localStorage' = [authToken |-> Null, authUser |-> Null]
            /\ UNCHANGED <<user, toastMessage, toastTimers>>
  /\ isLoading' = FALSE
  /\ pc' = "ready"
  /\ UNCHANGED <<build, activePage, searchQuery, hash, loginPending, apiCall, loggedOut>>
  /\ UNCHANGED <<tableVars, pmVars, auxVars>>

\* fetchUser() threw inside initialize(): fall back to the cached profile
GetMeReject ==
  /\ pc = "getMe"
  /\ IF localStorage.authUser # Null /\ JSONparses(localStorage.authUser)
       THEN /\ user' = JSONparse(localStorage.authUser)
            /\ showToast(CachedMsg)
       ELSE UNCHANGED <<user, toastMessage, toastTimers>>
  /\ isLoading' = FALSE
  /\ pc' = "ready"
  /\ UNCHANGED <<build, activePage, searchQuery, isAuthenticated, token,
                 sessionStorage, localStorage, hash, loginPending, apiCall, loggedOut>>
  /\ UNCHANGED <<tableVars, pmVars, auxVars>>

\* LoginPage (shown when not loading and not authenticated) calls login():
\* the apiLogin request goes out
LoginSubmit ==
  /\ pc = "ready"
  /\ ~isLoading
  /\ ~isAuthenticated
  /\ ~loginPending
  /\ loginPending' = TRUE
  /\ apiRequest("/auth/login", sessionStorage, localStorage)
  /\ UNCHANGED <<build, pc, activePage, searchQuery, toastMessage, user,
                 isAuthenticated, token, isLoading, toastTimers, sessionStorage,
                 localStorage, hash, loggedOut>>
  /\ UNCHANGED <<tableVars, pmVars, auxVars>>

\* login() that forgets localStorage.setItem('authToken', ...)
login_sessionOnly(t, u) ==
  /\ loginPending
  /\ loginPending' = FALSE
  /\ sessionStorage' = t
  /\ localStorage' = [localStorage EXCEPT !.authUser = JSONstringify(u)]
  /\ token' = t
  /\ user' = u
  /\ isAuthenticated' = TRUE
  /\ showToast(WelcomeMsg(u))
  /\ loggedOut' = FALSE
  /\ UNCHANGED <<build, pc, activePage, searchQuery, isLoading, hash, apiCall>>
  /\ UNCHANGED <<tableVars, pmVars, auxVars>>

\* login() after apiLogin resolved with {user: u, token: t}
login(t, u) ==
  /\ loginPending
  /\ loginPending' = FALSE
  /\ sessionStorage' = t
  /\ localStorage' = [authToken |-> t, authUser |-> JSONstringify(u)]
  /\ token' = t
  /\ user' = u
  /\ isAuthenticated' = TRUE
  /\ showToast(WelcomeMsg(u))
  /\ loggedOut' = FALSE
  /\ UNCHANGED <<build, pc, activePage, searchQuery, isLoading, hash, apiCall>>
  /\ UNCHANGED <<tableVars, pmVars, auxVars>>

\* apiLogin rejected: login() throws to its caller, the store is untouched
LoginReject ==
  /\ loginPending
  /\ loginPending' = FALSE
  /\ UNCHANGED <<build, pc, activePage, searchQuery, toastMessage, user,
                 isAuthenticated, token, isLoading, toastTimers, sessionStorage,
                 localStorage, hash, apiCall, loggedOut>>
  /\ UNCHANGED <<tableVars, pmVars, auxVars>>

\* logout() that forgets localStorage.removeItem('authToken')
logout_keepsLocalToken ==
  /\ pc = "ready"
  /\ isAuthenticated
  /\ token' = Null
  /\ user' = Null
  /\ isAuthenticated' = FALSE
  /\ sessionStorage' = Null
  /\ localStorage' = [localStorage EXCEPT !.authUser = Null]
  /\ activePage' = "products"
  /\ showToast(LogoutMsg)
  /\ loggedOut' = TRUE
  /\ UNCHANGED <<build, pc, searchQuery, isLoading, hash, loginPending, apiCall>>
  /\ UNCHANGED <<tableVars, pmVars, auxVars>>

\* logout() that forgets setToken(null)
logout_keepsToken ==
  /\ pc = "ready"
  /\ isAuthenticated
  /\ user' = Null
  /\ isAuthenticated' = FALSE
  /\ sessionStorage' = Null
  /\ localStorage' = [authToken |-> Null, authUser |-> Null]
  /\ activePage' = "products"
  /\ showToast(LogoutMsg)
  /\ loggedOut' = TRUE
  /\ UNCHANGED <<build, pc, searchQuery, isLoading, hash, loginPending, apiCall, token>>
  /\ UNCHANGED <<tableVars, pmVars, auxVars>>

\* logout(), called from the shell (rendered when authenticated and loaded)
logout ==
  /\ pc = "ready"
  /\ isAuthenticated
  /\ token' = Null
  /\ user' = Null
  /\ isAuthenticated' = FALSE
  /\ sessionStorage' = Null
  /\ localStorage' = [authToken |-> Null, authUser |-> Null]
  /\ activePage' = "products"
  /\ showToast(LogoutMsg)
  /\ loggedOut' = TRUE
  /\ UNCHANGED <<build, pc, searchQuery, isLoading, hash, loginPending, apiCall>>
  /\ UNCHANGED <<tableVars, pmVars, auxVars>>

\* setActivePage(page), called from the shell's navigation
setActivePage(page) ==
  /\ pc = "ready"
  /\ isAuthenticated
  /\ searchQuery' = IF activePage = "products" /\ page # "products" THEN "" ELSE searchQuery
  /\ activePage' = page
  /\ hash' = page
  /\ UNCHANGED <<build, pc, toastMessage, user, isAuthenticated, token, isLoading,
                 toastTimers, sessionStorage, localStorage, loginPending, apiCall, loggedOut>>
  /\ UNCHANGED <<tableVars, pmVars, auxVars>>

\* a handleHashChange without the validPages.includes(hash) test
handleHashChange_anyHash(h) ==
  /\ pc # "boot"
  /\ h # hash
  /\ hash' = h
  /\ activePage' = IF h # activePage THEN h ELSE activePage
  /\ UNCHANGED <<build, pc, searchQuery, toastMessage, user, isAuthenticated, token,
                 isLoading, toastTimers, sessionStorage, localStorage, loginPending,
                 apiCall, loggedOut>>
  /\ UNCHANGED <<tableVars, pmVars, auxVars>>

\* the browser changes the URL fragment to h and handleHashChange runs; the
\* listener exists once the provider's effects have run
handleHashChange(h) ==
  /\ pc # "boot"
  /\ h # hash
  /\ hash' = h
  /\ activePage' = IF h \in validPages /\ h # activePage THEN h ELSE activePage
  /\ UNCHANGED <<build, pc, searchQuery, toastMessage, user, isAuthenticated, token,
                 isLoading, toastTimers, sessionStorage, localStorage, loginPending, apiCall, loggedOut>>
  /\ UNCHANGED <<tableVars, pmVars, auxVars>>

\* the browser changes the URL fragment to h between the provider's first
\* render and its effects: no hashchange listener is registered yet
hashchangeUnheard(h) ==
  /\ pc = "boot"
  /\ h # hash
  /\ hash' = h
  /\ UNCHANGED <<build, pc, activePage, searchQuery, toastMessage, user, isAuthenticated,
                 token, isLoading, toastTimers, sessionStorage, localStorage,
                 loginPending, apiCall, loggedOut>>
  /\ UNCHANGED <<tableVars, pmVars, auxVars>>

\* updateUser(updatedUser), called by a page of the shell
updateUser(updatedUser) ==
  /\ pc = "ready"
  /\ isAuthenticated
  /\ user' = updatedUser
  /\ localStorage' = [localStorage EXCEPT !.authUser = JSONstringify(updatedUser)]
  /\ UNCHANGED <<build, pc, activePage, searchQuery, toastMessage, isAuthenticated,
                 token, isLoading, toastTimers, sessionStorage, hash, loginPending,
                 apiCall, loggedOut>>
  /\ UNCHANGED <<tableVars, pmVars, auxVars>>

\* the header's search input: setSearchQuery(e.target.value)
setSearchQuery(q) ==
  /\ pc = "ready"
  /\ isAuthenticated
  /\ ~isModalOpen /\ productToDelete = Null     \* a modal's overlay covers the header
  /\ q # searchQuery
  /\ searchQuery' = q
  /\ debouncePending' = mounted                 \* useDebounce re-arms its timer
  /\ UNCHANGED <<build, pc, activePage, toastMessage, user, isAuthenticated, token,
                 isLoading, toastTimers, sessionStorage, localStorage, hash,
                 loginPending, apiCall, loggedOut>>
  /\ UNCHANGED <<mounted, products, totalProducts, currentPage, sortConfig,
                 tableLoading, error, isModalOpen, editingProduct, productToDelete,
                 debouncedSearchQuery, prevFiltersRef, isSubmitting, inflight,
                 issued>>
  /\ UNCHANGED pmVars
  /\ UNCHANGED auxVars
  /\ UserEvent

\* the page is reloaded: the provider is mounted afresh, storage and URL stay
Reload ==
  /\ pc = "ready"
  /\ pc' = "boot"
  /\ activePage' = initialPage(hash)
  /\ searchQuery' = ""
  /\ toastMessage' = ""
  /\ user' = Null
  /\ isAuthenticated' = FALSE
  /\ token' = Null
  /\ isLoading' = TRUE
  /\ toastTimers' = 0
  /\ loginPending' = FALSE
  /\ apiCall' = NoCall
  /\ UNCHANGED <<build, sessionStorage, localStorage, hash, loggedOut>>
  /\ UNCHANGED <<tableVars, pmVars, auxVars>>

\* another tab of the same browser runs login(): only localStorage is shared
OtherTabLogin(t, u) ==
  /\ localStorage' = [authToken |-> t, authUser |-> JSONstringify(u)]
  /\ loggedOut' = FALSE
  /\ UNCHANGED <<build, pc, activePage, searchQuery, toastMessage, user,
                 isAuthenticated, token, isLoading, toastTimers, sessionStorage,
                 hash, loginPending, apiCall>>
  /\ UNCHANGED <<tableVars, pmVars, auxVars>>

\* another tab of the same browser runs logout()
OtherTabLogout ==
  /\ localStorage.authToken # Null
  /\ localStorage' = [authToken |-> Null, authUser |-> Null]
  /\ loggedOut' = TRUE
  /\ UNCHANGED <<build, pc, activePage, searchQuery, toastMessage, user,
                 isAuthenticated, token, isLoading, toastTimers, sessionStorage,
                 hash, loginPending, apiCall>>
  /\ UNCHANGED <<tableVars, pmVars, auxVars>>

\* --------------------------------------------------------------------- App
\* an App that tests isAuthenticated before isLoading
App_authFirst ==
  IF ~isAuthenticated THEN "LoginPage"
  ELSE IF isLoading THEN "LoadingSpinner"
  ELSE "shell"

\* what App returns: the spinner, the login page, or the shell (Sidebar, Header,
\* renderPage(), Toast)
App ==
  IF isLoading THEN "LoadingSpinner"
  ELSE IF ~isAuthenticated THEN "LoginPage"
  ELSE "shell"

\* getPageConfig()[page].title, the pageTitle the Header is given
getPageConfig(page) ==
  CASE page = "dashboard" -> "Hello Admin,"
    [] page = "products" -> "Products"
    [] page = "categories" -> "Categories"
    [] page = "orders" -> "Customer Orders"
    [] page = "reports" -> "Reports"
    [] page = "offers" -> "Offers & Promotions"
    [] page = "websiteContent" -> "Website Content"
    [] page = "settings" -> "Settings"

\* renderPage(): the switch on activePage
renderPage(page) ==
  CASE page = "dashboard" -> "DashboardPage"
    [] page = "products" -> "ProductsPage"
    [] page = "categories" -> "CategoriesPage"
    [] page = "orders" -> "OrdersPage"
    [] page = "reports" -> "ReportsPage"
    [] page = "offers" -> "OffersPage"
    [] page = "websiteContent" -> "WebsiteContentPage"
    [] OTHER -> "DashboardPage"

\* the page a page component is written for (src/pages/<Component>.tsx)
pageOf(component) ==
  CASE component = "DashboardPage" -> "dashboard"
    [] component = "ProductsPage" -> "products"
    [] component = "CategoriesPage" -> "categories"
    [] component = "OrdersPage" -> "orders"
    [] component = "ReportsPage" -> "reports"
    [] component = "OffersPage" -> "offers"
    [] component = "WebsiteContentPage" -> "websiteContent"
    [] component = "SettingsPage" -> "settings"

\* ------------------------------------------------------ ProductModal's form
\* values of the form's fields; price and stock are the value strings of
\* number inputs, or String(undefined) for a product that lacks the field
Names == {"", " ", "Tent"}
Categories == {"", "c1"}
Prices == {"", "-1", "0", "1.5", "undefined"}
Stocks == {"", "-1", "0", "1.5", "3"}
SpecCounts == {0, 1}                \* formData.specifications.length
Descriptions == {"", " ", "d"}
SubHeadings == {"", "s"}
FormFields ==
  {"name", "category", "price", "stock", "specifications", "description", "subHeading"}

FormDatas ==
  [name : Names, category : Categories, price : Prices, stock : Stocks,
   specifications : SpecCounts, description : Descriptions, subHeading : SubHeadings]

\* String.prototype.trim
trim(str) == IF str = " " THEN "" ELSE str

\* Number(str): NaN, or the value in tenths; Number("") is 0
Number(str) ==
  CASE str = "" -> [nan |-> FALSE, tenths |-> 0]
    [] str = "-1" -> [nan |-> FALSE, tenths |-> -10]
    [] str = "0" -> [nan |-> FALSE, tenths |-> 0]
    [] str = "1.5" -> [nan |-> FALSE, tenths |-> 15]
    [] str = "3" -> [nan |-> FALSE, tenths |-> 30]
    [] OTHER -> [nan |-> TRUE, tenths |-> 0]

isNaN(n) == n.nan
NumberIsInteger(n) == ~n.nan /\ n.tenths % 10 = 0

\* a validate() whose price and stock rules lack the leading !formData.<field>
validate_emptyIsZero(fd) ==
  {k \in FormFields :
     \/ k = "name" /\ trim(fd.name) = ""
     \/ k = "category" /\ fd.category = ""
     \/ k = "price" /\ (isNaN(Number(fd.price)) \/ Number(fd.price).tenths < 0)
     \/ k = "stock" /\ (\/ isNaN(Number(fd.stock))
                        \/ ~NumberIsInteger(Number(fd.stock))
                        \/ Number(fd.stock).tenths < 0)
     \/ k = "specifications" /\ fd.specifications = 0
     \/ k = "description" /\ trim(fd.description) = ""
     \/ k = "subHeading" /\ trim(fd.subHeading) = ""}

\* validate(): the keys of newErrors
validate(fd) ==
  {k \in FormFields :
     \/ k = "name" /\ trim(fd.name) = ""
     \/ k = "category" /\ fd.category = ""
     \/ k = "price" /\ (\/ fd.price = ""
                        \/ isNaN(Number(fd.price))
                        \/ Number(fd.price).tenths < 0)
     \/ k = "stock" /\ (\/ fd.stock = ""
                        \/ isNaN(Number(fd.stock))
                        \/ ~NumberIsInteger(Number(fd.stock))
                        \/ Number(fd.stock).tenths < 0)
     \/ k = "specifications" /\ fd.specifications = 0
     \/ k = "description" /\ trim(fd.description) = ""
     \/ k = "subHeading" /\ trim(fd.subHeading) = ""}

\* String(n) of a number field of a product
String(n) ==
  CASE n = [nan |-> FALSE, tenths |-> -10] -> "-1"
    [] n = [nan |-> FALSE, tenths |-> 0] -> "0"
    [] n = [nan |-> FALSE, tenths |-> 15] -> "1.5"
    [] n = [nan |-> FALSE, tenths |-> 30] -> "3"
    [] OTHER -> "undefined"

\* the Product object of a row, as the server returned it
Product(p) ==
  [_id |-> p, name |-> "Tent", categoryId |-> "c1",
   price |-> [nan |-> FALSE, tenths |-> 15], stock |-> [nan |-> FALSE, tenths |-> 30],
   specifications |-> 1, description |-> "d", subHeading |-> "s"]

\* getInitialState(): the form of the product being edited, or the empty form
getInitialState(product) ==
  IF product # Null
    THEN [name |-> Product(product).name,
          category |-> Product(product).categoryId,
          price |-> String(Product(product).price),
          stock |-> String(Product(product).stock),
          specifications |-> Product(product).specifications,
          description |-> Product(product).description,
          subHeading |-> Product(product).subHeading]
    ELSE newProductInitialState

\* ----------------------------------------------------------- ProductTable
\* the session store as ProductTable sees it: only the toast and the search move
modalQuiet ==
  /\ UNCHANGED <<build, pc, activePage, user, isAuthenticated, token, isLoading,
                 sessionStorage, localStorage, hash, loginPending, apiCall,
                 loggedOut>>
  /\ UNCHANGED pmVars
  /\ UNCHANGED <<offerVars, httpVars>>

\* the same, for the handlers that leave ProductModal's form alone
sessionQuiet ==
  /\ modalQuiet
  /\ UNCHANGED formVars

\* a signed-in admin on the products page, ProductTable about to render
InitTable ==
  /\ build = "part_002"
  /\ pc = "ready"
  /\ activePage = "products"
  /\ hash = "products"
  /\ searchQuery \in Searches
  /\ toastMessage = ""
  /\ toastTimers = 0
  /\ user = "alice"
  /\ isAuthenticated = TRUE
  /\ token = "t1"
  /\ isLoading = FALSE
  /\ sessionStorage = "t1"
  /\ localStorage = [authToken |-> "t1", authUser |-> JSONstringify("alice")]
  /\ loginPending = FALSE
  /\ apiCall = NoCall
  /\ loggedOut = FALSE
  /\ TableUnmounted
  /\ PortfolioUnmounted
  /\ AuxIdle

\* what a handler created by the current render closes over
closure ==
  [page |-> currentPage, search |-> debouncedSearchQuery, sort |-> sortConfig,
   plen |-> products.len]

Request(kind, c, page, update) ==
  [kind |-> kind, page |-> page, search |-> c.search, sort |-> c.sort,
   plen |-> c.plen, update |-> update]

RemoveAt(q, i) == [j \in 1..(Len(q) - 1) |-> IF j < i THEN q[j] ELSE q[j + 1]]

\* number of rows the server returns for a page of a result of `total` rows
PageLen(total, page) ==
  LET rest == total - PRODUCTS_PER_PAGE * (page - 1)
  IN  IF rest <= 0 THEN 0 ELSE IF rest > PRODUCTS_PER_PAGE THEN PRODUCTS_PER_PAGE ELSE rest

\* Pagination's page count
TotalPages(total) == (total + PRODUCTS_PER_PAGE - 1) \div PRODUCTS_PER_PAGE

\* lines 35-38
filtersChanged(c) ==
  \/ prevFiltersRef.search # c.search
  \/ prevFiltersRef.sort.key # c.sort.key
  \/ prevFiltersRef.sort.direction # c.sort.direction

\* line 40
pageToFetch(c) == IF filtersChanged(c) THEN 1 ELSE c.page

\* a fetch that runs again when it has reset the page, as an effect keyed on
\* currentPage would make it
requestsOfFetch_againOnReset(c) ==
  IF filtersChanged(c) /\ c.page # 1
    THEN <<Request("getProducts", [c EXCEPT !.plen = 0], 1, FALSE),
           Request("getProducts", [c EXCEPT !.plen = 0], 1, FALSE)>>
    ELSE <<Request("getProducts", [c EXCEPT !.plen = 0], pageToFetch(c), FALSE)>>

\* the getProducts requests fetchAndSetProducts sends
requestsOfFetch(c) ==
  <<Request("getProducts", [c EXCEPT !.plen = 0], pageToFetch(c), FALSE)>>

\* fetchAndSetProducts of the render with closure c, up to its await; `rest`
\* is what stays in flight of the requests that were
fetchAndSetProducts(c, rest) ==
  /\ currentPage' = IF filtersChanged(c) /\ c.page # 1 THEN 1 ELSE currentPage
  /\ tableLoading' = TRUE
  /\ error' = Null
  /\ inflight' = rest \o requestsOfFetch(c)
  /\ issued' = [page |-> pageToFetch(c), search |-> c.search, sort |-> c.sort]

\* first render and the mount effect
MountEffect ==
  /\ ~mounted
  /\ mounted' = TRUE
  /\ debouncedSearchQuery' = searchQuery
  /\ prevFiltersRef' = [search |-> searchQuery, sort |-> sortConfig]
  /\ LET c == [page |-> currentPage, search |-> searchQuery, sort |-> sortConfig,
               plen |-> 0]
     IN  /\ inflight' = <<Request("getProducts", c, c.page, FALSE)>>
         /\ issued' = [page |-> c.page, search |-> c.search, sort |-> c.sort]
  /\ tableLoading' = TRUE
  /\ error' = Null
  /\ UNCHANGED <<products, totalProducts, currentPage, sortConfig, isModalOpen,
                 editingProduct, productToDelete, debouncePending, isSubmitting>>
  /\ UNCHANGED <<searchQuery, toastMessage, toastTimers>>
  /\ UNCHANGED events
  /\ sessionQuiet

\* Promise.all([getProducts, getCategories]) resolved; line 76 follows
FetchResolve(i, total) ==
  /\ i \in 1..Len(inflight)
  /\ inflight[i].kind = "getProducts"
  /\ LET r == inflight[i] IN
       /\ products' = [len |-> PageLen(total, r.page), page |-> r.page,
                       search |-> r.search, sort |-> r.sort]
       /\ totalProducts' = total
       /\ prevFiltersRef' = [search |-> r.search, sort |-> r.sort]
  /\ tableLoading' = FALSE
  /\ inflight' = RemoveAt(inflight, i)
  /\ UNCHANGED <<mounted, currentPage, sortConfig, error, isModalOpen, editingProduct,
                 productToDelete, debouncedSearchQuery, debouncePending, isSubmitting>>
  /\ UNCHANGED <<searchQuery, toastMessage, toastTimers>>
  /\ UNCHANGED events
  /\ UNCHANGED issued
  /\ sessionQuiet

FetchFailedMsg == "Failed to fetch products"
FetchError == "Failed to fetch products. Please try again later."

\* a catch block that sets the error text but shows no toast
FetchReject_silent(i) ==
  /\ i \in 1..Len(inflight)
  /\ inflight[i].kind = "getProducts"
  /\ error' = FetchError
  /\ tableLoading' = FALSE
  /\ prevFiltersRef' = [search |-> inflight[i].search, sort |-> inflight[i].sort]
  /\ inflight' = RemoveAt(inflight, i)
  /\ UNCHANGED <<mounted, products, totalProducts, currentPage, sortConfig,
                 isModalOpen, editingProduct, productToDelete, debouncedSearchQuery,
                 debouncePending, isSubmitting>>
  /\ UNCHANGED <<searchQuery, toastMessage, toastTimers>>
  /\ UNCHANGED events
  /\ UNCHANGED issued
  /\ sessionQuiet

\* getProducts or getCategories rejected: the catch block, then line 76
FetchReject(i) ==
  /\ i \in 1..Len(inflight)
  /\ inflight[i].kind = "getProducts"
  /\ error' = FetchError
  /\ showToast(FetchFailedMsg)
  /\ tableLoading' = FALSE
  /\ prevFiltersRef' = [search |-> inflight[i].search, sort |-> inflight[i].sort]
  /\ inflight' = RemoveAt(inflight, i)
  /\ UNCHANGED <<mounted, products, totalProducts, currentPage, sortConfig,
                 isModalOpen, editingProduct, productToDelete, debouncedSearchQuery,
                 debouncePending, isSubmitting>>
  /\ UNCHANGED searchQuery
  /\ UNCHANGED events
  /\ UNCHANGED issued
  /\ sessionQuiet

Slots == 1..(MaxInFlight + 1)

NoModal == ~isModalOpen /\ productToDelete = Null
RowsShown == mounted /\ ~tableLoading /\ error = Null /\ products.len > 0

\* useDebounce: 500 ms after the last change the debounced value follows
DebounceFire ==
  /\ debouncePending
  /\ debouncePending' = FALSE
  /\ debouncedSearchQuery' = searchQuery
  /\ UNCHANGED <<mounted, products, totalProducts, currentPage, sortConfig,
                 tableLoading, error, isModalOpen, editingProduct, productToDelete,
                 prevFiltersRef, isSubmitting, inflight>>
  /\ UNCHANGED <<searchQuery, toastMessage, toastTimers>>
  /\ UNCHANGED events
  /\ UNCHANGED issued
  /\ sessionQuiet

\* a handleSort that flips the direction whatever the column
handleSort_alwaysToggle(key) ==
  /\ mounted /\ NoModal
  /\ sortConfig' =
       [key |-> key,
        direction |-> IF sortConfig.direction = "ascending"
                        THEN "descending" ELSE "ascending"]
  /\ UNCHANGED <<mounted, products, totalProducts, currentPage, tableLoading, error,
                 isModalOpen, editingProduct, productToDelete, debouncedSearchQuery,
                 debouncePending, prevFiltersRef, isSubmitting, inflight>>
  /\ UNCHANGED <<searchQuery, toastMessage, toastTimers>>
  /\ UserEvent
  /\ UNCHANGED issued
  /\ sessionQuiet

\* a column header is clicked
handleSort(key) ==
  /\ mounted /\ NoModal
  /\ sortConfig' =
       [key |-> key,
        direction |-> IF sortConfig.key = key /\ sortConfig.direction = "ascending"
                        THEN "descending" ELSE "ascending"]
  /\ UNCHANGED <<mounted, products, totalProducts, currentPage, tableLoading, error,
                 isModalOpen, editingProduct, productToDelete, debouncedSearchQuery,
                 debouncePending, prevFiltersRef, isSubmitting, inflight>>
  /\ UNCHANGED <<searchQuery, toastMessage, toastTimers>>
  /\ UserEvent
  /\ UNCHANGED issued
  /\ sessionQuiet

\* Pagination's onPageChange: page => setCurrentPage(page)
onPageChange(page) ==
  /\ RowsShown /\ NoModal
  /\ page \in 1..TotalPages(totalProducts)
  /\ page # currentPage
  /\ currentPage' = page
  /\ UNCHANGED <<mounted, products, totalProducts, sortConfig, tableLoading, error,
                 isModalOpen, editingProduct, productToDelete, debouncedSearchQuery,
                 debouncePending, prevFiltersRef, isSubmitting, inflight>>
  /\ UNCHANGED <<searchQuery, toastMessage, toastTimers>>
  /\ UserEvent
  /\ UNCHANGED issued
  /\ sessionQuiet

\* "Add Product"; the modal's effect on [isOpen, product] resets the form, the
\* errors and isSubmitting
handleAddClick ==
  /\ mounted /\ NoModal
  /\ editingProduct' = Null
  /\ isModalOpen' = TRUE
  /\ formData' = getInitialState(editingProduct')
  /\ formErrors' = {}
  /\ isSubmitting' = FALSE
  /\ UNCHANGED <<mounted, products, totalProducts, currentPage, sortConfig,
                 tableLoading, error, productToDelete, debouncedSearchQuery,
                 debouncePending, prevFiltersRef, inflight>>
  /\ UNCHANGED <<searchQuery, toastMessage, toastTimers>>
  /\ UserEvent
  /\ UNCHANGED issued
  /\ modalQuiet

\* a row's edit button; the modal's effect loads the product into the form
handleEditClick(p) ==
  /\ RowsShown /\ NoModal
  /\ editingProduct' = p
  /\ isModalOpen' = TRUE
  /\ formData' = getInitialState(editingProduct')
  /\ formErrors' = {}
  /\ isSubmitting' = FALSE
  /\ UNCHANGED <<mounted, products, totalProducts, currentPage, sortConfig,
                 tableLoading, error, productToDelete, debouncedSearchQuery,
                 debouncePending, prevFiltersRef, inflight>>
  /\ UNCHANGED <<searchQuery, toastMessage, toastTimers>>
  /\ UserEvent
  /\ UNCHANGED issued
  /\ modalQuiet

\* the modal's X button (never disabled) or Cancel
handleCloseModal ==
  /\ isModalOpen
  /\ isModalOpen' = FALSE
  /\ editingProduct' = Null
  /\ UNCHANGED <<mounted, products, totalProducts, currentPage, sortConfig,
                 tableLoading, error, productToDelete, debouncedSearchQuery,
                 debouncePending, prevFiltersRef, isSubmitting, inflight>>
  /\ UNCHANGED <<searchQuery, toastMessage, toastTimers>>
  /\ UserEvent
  /\ UNCHANGED issued
  /\ sessionQuiet

\* typing into a field of the form: handleChange sets the field and clears its
\* error, if one is shown
handleChange(name, value) ==
  /\ isModalOpen
  /\ name \in FormFields \ {"specifications"}
  /\ formData' = [formData EXCEPT ![name] = value]
  /\ formData' \in FormDatas
  /\ formData' # formData
  /\ formErrors' = formErrors \ {name}
  /\ UNCHANGED <<mounted, products, totalProducts, currentPage, sortConfig,
                 tableLoading, error, isModalOpen, editingProduct, productToDelete,
                 debouncedSearchQuery, debouncePending, prevFiltersRef, isSubmitting,
                 inflight>>
  /\ UNCHANGED <<searchQuery, toastMessage, toastTimers>>
  /\ UserEvent
  /\ UNCHANGED issued
  /\ modalQuiet

\* "Add" under the specifications, with newSpecKey and newSpecValue as typed:
\* a blank key or value only shows specError
handleAddSpecification(newSpecKey, newSpecValue) ==
  /\ isModalOpen
  /\ trim(newSpecKey) # "" /\ trim(newSpecValue) # ""
  /\ formData' = [formData EXCEPT !.specifications = @ + 1]
  /\ formData' \in FormDatas
  /\ UNCHANGED formErrors
  /\ UNCHANGED <<mounted, products, totalProducts, currentPage, sortConfig,
                 tableLoading, error, isModalOpen, editingProduct, productToDelete,
                 debouncedSearchQuery, debouncePending, prevFiltersRef, isSubmitting,
                 inflight>>
  /\ UNCHANGED <<searchQuery, toastMessage, toastTimers>>
  /\ UserEvent
  /\ UNCHANGED issued
  /\ modalQuiet

\* the remove button of the specification at indexToRemove (0-based)
handleRemoveSpecification(indexToRemove) ==
  /\ isModalOpen
  /\ indexToRemove \in 0..(formData.specifications - 1)
  /\ formData' = [formData EXCEPT !.specifications = @ - 1]
  /\ UNCHANGED formErrors
  /\ UNCHANGED <<mounted, products, totalProducts, currentPage, sortConfig,
                 tableLoading, error, isModalOpen, editingProduct, productToDelete,
                 debouncedSearchQuery, debouncePending, prevFiltersRef, isSubmitting,
                 inflight>>
  /\ UNCHANGED <<searchQuery, toastMessage, toastTimers>>
  /\ UserEvent
  /\ UNCHANGED issued
  /\ modalQuiet

\* ProductModal.handleSubmit: validate() sets the errors, and with none of them
\* onSave = handleSave runs up to its await of updateProduct / addProduct
handleSubmit ==
  /\ isModalOpen /\ ~isSubmitting
  /\ validate(formData) = {} => Len(inflight) < MaxInFlight
  /\ formErrors' = validate(formData)
  /\ IF validate(formData) = {}
       THEN /\ isSubmitting' = TRUE
            /\ inflight' = Append(inflight,
                                  Request("save", [closure EXCEPT !.plen = 0], currentPage,
                                          editingProduct # Null))
       ELSE UNCHANGED <<isSubmitting, inflight>>
  /\ UNCHANGED formData
  /\ UNCHANGED <<mounted, products, totalProducts, currentPage, sortConfig,
                 tableLoading, error, isModalOpen, editingProduct, productToDelete,
                 debouncedSearchQuery, debouncePending, prevFiltersRef>>
  /\ UNCHANGED <<searchQuery, toastMessage, toastTimers>>
  /\ UserEvent
  /\ UNCHANGED issued
  /\ modalQuiet

SavedMsg(update) ==
  IF update THEN "Product updated successfully." ELSE "Product added successfully."
SaveFailedMsg == "Failed to save product."

\* handleSave after its request resolved, then handleSubmit's continuation
SaveResolve(i) ==
  /\ i \in 1..Len(inflight)
  /\ inflight[i].kind = "save"
  /\ showToast(SavedMsg(inflight[i].update))
  /\ isModalOpen' = FALSE
  /\ editingProduct' = Null
  /\ fetchAndSetProducts(inflight[i], RemoveAt(inflight, i))
  /\ isSubmitting' = FALSE
  /\ UNCHANGED <<mounted, products, totalProducts, sortConfig, productToDelete,
                 debouncedSearchQuery, debouncePending, prevFiltersRef>>
  /\ UNCHANGED searchQuery
  /\ UNCHANGED events
  /\ sessionQuiet

\* a catch block that also closes the modal
SaveReject_closesModal(i) ==
  /\ i \in 1..Len(inflight)
  /\ inflight[i].kind = "save"
  /\ showToast(SaveFailedMsg)
  /\ isSubmitting' = FALSE
  /\ isModalOpen' = FALSE
  /\ editingProduct' = Null
  /\ inflight' = RemoveAt(inflight, i)
  /\ UNCHANGED <<mounted, products, totalProducts, currentPage, sortConfig,
                 tableLoading, error, productToDelete,
                 debouncedSearchQuery, debouncePending, prevFiltersRef>>
  /\ UNCHANGED searchQuery
  /\ UNCHANGED events
  /\ UNCHANGED issued
  /\ sessionQuiet

\* handleSave's catch block, then handleSubmit's
SaveReject(i) ==
  /\ i \in 1..Len(inflight)
  /\ inflight[i].kind = "save"
  /\ showToast(SaveFailedMsg)
  /\ isSubmitting' = FALSE
  /\ inflight' = RemoveAt(inflight, i)
  /\ UNCHANGED <<mounted, products, totalProducts, currentPage, sortConfig,
                 tableLoading, error, isModalOpen, editingProduct, productToDelete,
                 debouncedSearchQuery, debouncePending, prevFiltersRef>>
  /\ UNCHANGED searchQuery
  /\ UNCHANGED events
  /\ UNCHANGED issued
  /\ sessionQuiet

\* a row's delete button: setProductToDelete(product)
setProductToDelete(p) ==
  /\ RowsShown /\ NoModal
  /\ productToDelete' = p
  /\ UNCHANGED <<mounted, products, totalProducts, currentPage, sortConfig,
                 tableLoading, error, isModalOpen, editingProduct,
                 debouncedSearchQuery, debouncePending, prevFiltersRef, isSubmitting,
                 inflight>>
  /\ UNCHANGED <<searchQuery, toastMessage, toastTimers>>
  /\ UserEvent
  /\ UNCHANGED issued
  /\ sessionQuiet

\* ConfirmationModal's onClose
CancelDelete ==
  /\ productToDelete # Null
  /\ productToDelete' = Null
  /\ UNCHANGED <<mounted, products, totalProducts, currentPage, sortConfig,
                 tableLoading, error, isModalOpen, editingProduct,
                 debouncedSearchQuery, debouncePending, prevFiltersRef, isSubmitting,
                 inflight>>
  /\ UNCHANGED <<searchQuery, toastMessage, toastTimers>>
  /\ UserEvent
  /\ UNCHANGED issued
  /\ sessionQuiet

\* ConfirmationModal's onConfirm: handleDelete up to its await of deleteProduct
handleDelete ==
  /\ productToDelete # Null
  /\ Len(inflight) < MaxInFlight
  /\ inflight' = Append(inflight, Request("delete", closure, currentPage, FALSE))
  /\ UNCHANGED <<mounted, products, totalProducts, currentPage, sortConfig,
                 tableLoading, error, isModalOpen, editingProduct, productToDelete,
                 debouncedSearchQuery, debouncePending, prevFiltersRef, isSubmitting>>
  /\ UNCHANGED <<searchQuery, toastMessage, toastTimers>>
  /\ UserEvent
  /\ UNCHANGED issued
  /\ sessionQuiet

DeletedMsg == "Product deleted successfully."
DeleteFailedMsg == "Failed to delete product. Please try again."

\* handleDelete after deleteProduct resolved
DeleteResolve(i) ==
  /\ i \in 1..Len(inflight)
  /\ inflight[i].kind = "delete"
  /\ showToast(DeletedMsg)
  /\ IF inflight[i].plen = 1 /\ inflight[i].page > 1
       THEN /\ currentPage' = inflight[i].page - 1
            /\ inflight' = RemoveAt(inflight, i)
            /\ UNCHANGED <<tableLoading, error, issued>>
       ELSE fetchAndSetProducts(inflight[i], RemoveAt(inflight, i))
  /\ productToDelete' = Null
  /\ UNCHANGED <<mounted, products, totalProducts, sortConfig, isModalOpen,
                 editingProduct, debouncedSearchQuery, debouncePending,
                 prevFiltersRef, isSubmitting>>
  /\ UNCHANGED searchQuery
  /\ UNCHANGED events
  /\ sessionQuiet

\* handleDelete's catch block
DeleteReject(i) ==
  /\ i \in 1..Len(inflight)
  /\ inflight[i].kind = "delete"
  /\ showToast(DeleteFailedMsg)
  /\ productToDelete' = Null
  /\ inflight' = RemoveAt(inflight, i)
  /\ UNCHANGED <<mounted, products, totalProducts, currentPage, sortConfig,
                 tableLoading, error, isModalOpen, editingProduct,
                 debouncedSearchQuery, debouncePending, prevFiltersRef, isSubmitting>>
  /\ UNCHANGED searchQuery
  /\ UNCHANGED events
  /\ UNCHANGED issued
  /\ sessionQuiet

TypedKeys == {"", "k"}               \* newSpecKey / newSpecValue as typed
\* what the admin types into a field of the form on the products page (the
\* form specification also clears fields and types the other values)
TableTyped == {"Tent", "c1", "-1", "1.5", "3", "d", "s"}

NextTable ==
  \/ MountEffect
  \/ \E i \in Slots, total \in Totals : FetchResolve(i, total)
  \/ \E i \in Slots : FetchReject(i)
  \/ \E q \in Searches : setSearchQuery(q)
  \/ DebounceFire
  \/ \E key \in SortKeys : handleSort(key)
  \/ \E page \in 1..TotalPages(PRODUCTS_PER_PAGE + 1) : onPageChange(page)
  \/ handleAddClick
  \/ \E p \in ProductIds : handleEditClick(p)
  \/ handleCloseModal
  \/ handleSubmit
  \/ \E name \in FormFields, value \in TableTyped : handleChange(name, value)
  \/ \E k \in TypedKeys, v \in TypedKeys : handleAddSpecification(k, v)
  \/ \E index \in 0..1 : handleRemoveSpecification(index)
  \/ \E i \in Slots : SaveResolve(i)
  \/ \E i \in Slots : SaveReject(i)
  \/ \E p \in ProductIds : setProductToDelete(p)
  \/ CancelDelete
  \/ handleDelete
  \/ \E i \in Slots : DeleteResolve(i)
  \/ \E i \in Slots : DeleteReject(i)
  \/ ToastTimerFire



\* ------------------------------------- WebsiteContentPage, PortfolioManager
Tabs == {"hero", "gallery", "featured"}
ItemCounts == {0, 1}                \* length of response.data
PortfolioItemIds == {"i1"}          \* the item acted on

\* the template literals of PortfolioManager's messages
PMFetchError(section) == "Failed to fetch " \o section \o " items."
PMSavedMsg(section, update) ==
  section \o (IF update THEN " item updated successfully." ELSE " item added successfully.")
PMSaveFailedMsg(section) == "Failed to save " \o section \o " item."
PMDeletedMsg(section) == section \o " item deleted successfully."
PMDeleteFailedMsg(section) == "Failed to delete " \o section \o " item."

\* everything of ProductTable but the event budget
tableState ==
  <<mounted, products, totalProducts, currentPage, sortConfig, tableLoading, error,
    isModalOpen, editingProduct, productToDelete, debouncedSearchQuery,
    debouncePending, prevFiltersRef, isSubmitting, inflight, issued>>

\* the session store as PortfolioManager sees it: only the toast moves
pmQuiet ==
  /\ UNCHANGED <<build, pc, activePage, searchQuery, user, isAuthenticated, token,
                 isLoading, sessionStorage, localStorage, hash, loginPending,
                 apiCall, loggedOut>>
  /\ UNCHANGED tableState
  /\ UNCHANGED auxVars

\* a signed-in admin on the website-content page, the page about to render
InitPortfolio ==
  /\ build = "part_002"
  /\ pc = "ready"
  /\ activePage = "websiteContent"
  /\ hash = "websiteContent"
  /\ searchQuery = ""
  /\ toastMessage = ""
  /\ toastTimers = 0
  /\ user = "alice"
  /\ isAuthenticated = TRUE
  /\ token = "t1"
  /\ isLoading = FALSE
  /\ sessionStorage = "t1"
  /\ localStorage = [authToken |-> "t1", authUser |-> JSONstringify("alice")]
  /\ loginPending = FALSE
  /\ apiCall = NoCall
  /\ loggedOut = FALSE
  /\ TableUnmounted
  /\ PortfolioUnmounted
  /\ AuxIdle

\* a request awaiting its response; orphan: the PortfolioItemModal instance
\* whose handleSubmit awaits it has been unmounted since
PMRequest(kind, section, update) ==
  [kind |-> kind, section |-> section, update |-> update, orphan |-> FALSE]

\* the manager returns the spinner or the error text: PortfolioItemModal is
\* unmounted, its state is lost and the saves it awaits are left behind
Orphaned(q) == [j \in 1..Len(q) |-> [q[j] EXCEPT !.orphan = (q[j].kind = "save")]]

\* the manager's third return: neither the spinner nor the error text
PMRendered == pmMounted /\ ~pmIsLoading /\ pmError = Null
\* one of the two modals, rendered by that return only, covers the page
PMOverlay == PMRendered /\ (pmIsModalOpen \/ itemToDelete # Null)

\* fetchPortfolioItems of a render whose prop is `section`, up to its await;
\* `rest` is what stays in flight of the requests that were
fetchPortfolioItems(section, rest) ==
  /\ pmIsLoading' = TRUE
  /\ pmError' = Null
  /\ pmIsSubmitting' = FALSE
  /\ pmInflight' = Append(Orphaned(rest), PMRequest("getPortfolioItems", section, FALSE))

\* first render and the effect on [fetchPortfolioItems]
PortfolioMount ==
  /\ ~pmMounted
  /\ pmMounted' = TRUE
  /\ fetchPortfolioItems(activeTab, pmInflight)
  /\ UNCHANGED <<activeTab, portfolioItems, pmIsModalOpen, itemToDelete, itemToEdit>>
  /\ UNCHANGED <<toastMessage, toastTimers, events>>
  /\ pmQuiet

\* a TabButton: the section prop changes, useCallback gives a new
\* fetchPortfolioItems and the effect runs it
setActiveTab(tabName) ==
  /\ pmMounted /\ ~PMOverlay
  /\ tabName # activeTab
  /\ Len(pmInflight) < MaxInFlight
  /\ activeTab' = tabName
  /\ fetchPortfolioItems(tabName, pmInflight)
  /\ UNCHANGED <<pmMounted, portfolioItems, pmIsModalOpen, itemToDelete, itemToEdit>>
  /\ UNCHANGED <<toastMessage, toastTimers>>
  /\ UserEvent
  /\ pmQuiet

\* getPortfolioItems resolved: setPortfolioItems(response.data), then finally
PMFetchResolve(i, n) ==
  /\ i \in 1..Len(pmInflight)
  /\ pmInflight[i].kind = "getPortfolioItems"
  /\ portfolioItems' = [section |-> pmInflight[i].section, len |-> n]
  /\ pmIsLoading' = FALSE
  /\ pmInflight' = RemoveAt(pmInflight, i)
  /\ UNCHANGED <<pmMounted, activeTab, pmError, pmIsModalOpen, itemToDelete,
                 itemToEdit, pmIsSubmitting>>
  /\ UNCHANGED <<toastMessage, toastTimers, events>>
  /\ pmQuiet

\* getPortfolioItems rejected: the catch block (setError only), then finally;
\* the error text replaces whatever was rendered
PMFetchReject(i) ==
  /\ i \in 1..Len(pmInflight)
  /\ pmInflight[i].kind = "getPortfolioItems"
  /\ pmError' = PMFetchError(pmInflight[i].section)
  /\ pmIsLoading' = FALSE
  /\ pmIsSubmitting' = FALSE
  /\ pmInflight' = Orphaned(RemoveAt(pmInflight, i))
  /\ UNCHANGED <<pmMounted, activeTab, portfolioItems, pmIsModalOpen, itemToDelete,
                 itemToEdit>>
  /\ UNCHANGED <<toastMessage, toastTimers, events>>
  /\ pmQuiet

\* the "Add ..." button
PMAddClick ==
  /\ PMRendered /\ ~PMOverlay
  /\ itemToEdit' = Null
  /\ pmIsModalOpen' = TRUE
  /\ UNCHANGED <<pmMounted, activeTab, portfolioItems, pmIsLoading, pmError,
                 itemToDelete, pmIsSubmitting, pmInflight>>
  /\ UNCHANGED <<toastMessage, toastTimers>>
  /\ UserEvent
  /\ pmQuiet

\* handleEdit(item), from an item's edit button
handleEdit(item) ==
  /\ PMRendered /\ ~PMOverlay
  /\ portfolioItems.len > 0
  /\ itemToEdit' = item
  /\ pmIsModalOpen' = TRUE
  /\ UNCHANGED <<pmMounted, activeTab, portfolioItems, pmIsLoading, pmError,
                 itemToDelete, pmIsSubmitting, pmInflight>>
  /\ UNCHANGED <<toastMessage, toastTimers>>
  /\ UserEvent
  /\ pmQuiet

\* PortfolioItemModal's onClose, from its X button (never disabled)
PMCloseModal ==
  /\ PMRendered /\ pmIsModalOpen
  /\ pmIsModalOpen' = FALSE
  /\ itemToEdit' = Null
  /\ UNCHANGED <<pmMounted, activeTab, portfolioItems, pmIsLoading, pmError,
                 itemToDelete, pmIsSubmitting, pmInflight>>
  /\ UNCHANGED <<toastMessage, toastTimers>>
  /\ UserEvent
  /\ pmQuiet

\* PortfolioItemModal.handleSubmit with a valid form: onSave = handleSave runs
\* up to its await of updatePortfolioItem / createPortfolioItem
PMSubmit ==
  /\ PMRendered /\ pmIsModalOpen /\ ~pmIsSubmitting
  /\ Len(pmInflight) < MaxInFlight
  /\ pmIsSubmitting' = TRUE
  /\ pmInflight' = Append(pmInflight, PMRequest("save", activeTab, itemToEdit # Null))
  /\ UNCHANGED <<pmMounted, activeTab, portfolioItems, pmIsLoading, pmError,
                 pmIsModalOpen, itemToDelete, itemToEdit>>
  /\ UNCHANGED <<toastMessage, toastTimers>>
  /\ UserEvent
  /\ pmQuiet

\* handleSave after its request resolved; the modal is unmounted by the
\* spinner and comes back with isSubmitting = false
handleSaveResolve(i) ==
  /\ i \in 1..Len(pmInflight)
  /\ pmInflight[i].kind = "save"
  /\ showToast(PMSavedMsg(pmInflight[i].section, pmInflight[i].update))
  /\ pmIsModalOpen' = FALSE
  /\ itemToEdit' = Null
  /\ fetchPortfolioItems(pmInflight[i].section, RemoveAt(pmInflight, i))
  /\ UNCHANGED <<pmMounted, activeTab, portfolioItems, itemToDelete>>
  /\ UNCHANGED events
  /\ pmQuiet

\* handleSave's catch block (toast, rethrow), then the modal's catch and
\* finally: setIsSubmitting(false) of an unmounted instance changes nothing
handleSaveReject(i) ==
  /\ i \in 1..Len(pmInflight)
  /\ pmInflight[i].kind = "save"
  /\ showToast(PMSaveFailedMsg(pmInflight[i].section))
  /\ pmIsSubmitting' = IF pmInflight[i].orphan THEN pmIsSubmitting ELSE FALSE
  /\ pmInflight' = RemoveAt(pmInflight, i)
  /\ UNCHANGED <<pmMounted, activeTab, portfolioItems, pmIsLoading, pmError,
                 pmIsModalOpen, itemToDelete, itemToEdit>>
  /\ UNCHANGED events
  /\ pmQuiet

\* an item's delete button: setItemToDelete(item)
setItemToDelete(item) ==
  /\ PMRendered /\ ~PMOverlay
  /\ portfolioItems.len > 0
  /\ itemToDelete' = item
  /\ UNCHANGED <<pmMounted, activeTab, portfolioItems, pmIsLoading, pmError,
                 pmIsModalOpen, itemToEdit, pmIsSubmitting, pmInflight>>
  /\ UNCHANGED <<toastMessage, toastTimers>>
  /\ UserEvent
  /\ pmQuiet

\* ConfirmationModal's onClose: setItemToDelete(null)
PMCancelDelete ==
  /\ PMRendered /\ itemToDelete # Null
  /\ itemToDelete' = Null
  /\ UNCHANGED <<pmMounted, activeTab, portfolioItems, pmIsLoading, pmError,
                 pmIsModalOpen, itemToEdit, pmIsSubmitting, pmInflight>>
  /\ UNCHANGED <<toastMessage, toastTimers>>
  /\ UserEvent
  /\ pmQuiet

\* ConfirmationModal's onConfirm: PortfolioManager's handleDelete up to its
\* await of deletePortfolioItem
pmHandleDelete ==
  /\ PMRendered /\ itemToDelete # Null
  /\ Len(pmInflight) < MaxInFlight
  /\ pmInflight' = Append(pmInflight, PMRequest("delete", activeTab, FALSE))
  /\ UNCHANGED <<pmMounted, activeTab, portfolioItems, pmIsLoading, pmError,
                 pmIsModalOpen, itemToDelete, itemToEdit, pmIsSubmitting>>
  /\ UNCHANGED <<toastMessage, toastTimers>>
  /\ UserEvent
  /\ pmQuiet

\* PortfolioManager's handleDelete after deletePortfolioItem resolved
pmHandleDeleteResolve(i) ==
  /\ i \in 1..Len(pmInflight)
  /\ pmInflight[i].kind = "delete"
  /\ showToast(PMDeletedMsg(pmInflight[i].section))
  /\ itemToDelete' = Null
  /\ fetchPortfolioItems(pmInflight[i].section, RemoveAt(pmInflight, i))
  /\ UNCHANGED <<pmMounted, activeTab, portfolioItems, pmIsModalOpen, itemToEdit>>
  /\ UNCHANGED events
  /\ pmQuiet

\* PortfolioManager's handleDelete: its catch block
pmHandleDeleteReject(i) ==
  /\ i \in 1..Len(pmInflight)
  /\ pmInflight[i].kind = "delete"
  /\ showToast(PMDeleteFailedMsg(pmInflight[i].section))
  /\ pmInflight' = RemoveAt(pmInflight, i)
  /\ UNCHANGED <<pmMounted, activeTab, portfolioItems, pmIsLoading, pmError,
                 pmIsModalOpen, itemToDelete, itemToEdit, pmIsSubmitting>>
  /\ UNCHANGED events
  /\ pmQuiet

NextPortfolio ==
  \/ PortfolioMount
  \/ \E tabName \in Tabs : setActiveTab(tabName)
  \/ \E i \in Slots, n \in ItemCounts : PMFetchResolve(i, n)
  \/ \E i \in Slots : PMFetchReject(i)
  \/ PMAddClick
  \/ \E item \in PortfolioItemIds : handleEdit(item)
  \/ PMCloseModal
  \/ PMSubmit
  \/ \E i \in Slots : handleSaveResolve(i)
  \/ \E i \in Slots : handleSaveReject(i)
  \/ \E item \in PortfolioItemIds : setItemToDelete(item)
  \/ PMCancelDelete
  \/ pmHandleDelete
  \/ \E i \in Slots : pmHandleDeleteResolve(i)
  \/ \E i \in Slots : pmHandleDeleteReject(i)
  \/ ToastTimerFire

SpecPortfolio == InitPortfolio /\ [][NextPortfolio]_vars


\* --------------------------------------------- ProductModal's form in use
\* the products page with the list loaded and the modal open on some form
InitForm ==
  /\ build = "part_002"
  /\ pc = "ready"
  /\ activePage = "products"
  /\ hash = "products"
  /\ searchQuery = ""
  /\ toastMessage = ""
  /\ toastTimers = 0
  /\ user = "alice"
  /\ isAuthenticated = TRUE
  /\ token = "t1"
  /\ isLoading = FALSE
  /\ sessionStorage = "t1"
  /\ localStorage = [authToken |-> "t1", authUser |-> JSONstringify("alice")]
  /\ loginPending = FALSE
  /\ apiCall = NoCall
  /\ loggedOut = FALSE
  /\ mounted = TRUE
  /\ products = [len |-> 1, page |-> 1, search |-> "", sort |-> initialSort]
  /\ totalProducts = 1
  /\ currentPage = 1
  /\ sortConfig = initialSort
  /\ tableLoading = FALSE
  /\ error = Null
  /\ isModalOpen = TRUE
  /\ editingProduct \in ProductIds \cup {Null}
  /\ productToDelete = Null
  /\ debouncedSearchQuery = ""
  /\ debouncePending = FALSE
  /\ prevFiltersRef = [search |-> "", sort |-> initialSort]
  /\ isSubmitting = FALSE
  /\ inflight = <<>>
  /\ events = 0
  /\ issued = [page |-> 1, search |-> "", sort |-> initialSort]
  /\ PortfolioUnmounted
  /\ formData \in FormDatas
  /\ formErrors = {}
  /\ OffersLoaded
  /\ HttpIdle

NextForm ==
  \/ \E name \in FormFields, value \in Names \cup Categories \cup Prices \cup Stocks
                                         \cup Descriptions \cup SubHeadings :
       handleChange(name, value)
  \/ \E k \in TypedKeys, v \in TypedKeys : handleAddSpecification(k, v)
  \/ \E i \in 0..1 : handleRemoveSpecification(i)
  \/ handleSubmit
  \/ \E i \in Slots : SaveResolve(i)
  \/ \E i \in Slots : SaveReject(i)
  \/ handleCloseModal
  \/ handleAddClick
  \/ \E p \in ProductIds : handleEditClick(p)
  \/ \E i \in Slots, total \in Totals : FetchResolve(i, total)
  \/ \E i \in Slots : FetchReject(i)
  \/ ToastTimerFire

SpecForm == InitForm /\ [][NextForm]_vars

\* the products page with the Add Product form filled in, about to be submitted
AddFormFilled ==
  /\ InitForm
  /\ editingProduct = Null
  /\ formData = [name |-> "Tent", category |-> "c1", price |-> "1.5", stock |-> "3",
                 specifications |-> 1, description |-> "d", subHeading |-> "s"]

\* ProductTable from its mount, or from the filled Add Product form
SpecTable == (InitTable \/ AddFormFilled) /\ [][NextTable]_vars


\* ------------------------------------------------- mockApi.ts: offers store
OfferIds == {"1", "2"}              \* ids passed to updateOffer / deleteOffer
OfferTitles == {"a", "b"}           \* the data of an offer

\* crypto.randomUUID(): an id no other offer has
randomUUID(n) == CASE n = 0 -> "u1" [] n = 1 -> "u2" [] n = 2 -> "u3" [] OTHER -> "u4"

\* a signed-in admin on `page`, nothing of the page mounted yet
SignedInOn(page) ==
  /\ build = "part_002"
  /\ pc = "ready"
  /\ activePage = page
  /\ hash = page
  /\ searchQuery = ""
  /\ toastMessage = ""
  /\ toastTimers = 0
  /\ user = "alice"
  /\ isAuthenticated = TRUE
  /\ token = "t1"
  /\ isLoading = FALSE
  /\ sessionStorage = "t1"
  /\ localStorage = [authToken |-> "t1", authUser |-> JSONstringify("alice")]
  /\ loginPending = FALSE
  /\ apiCall = NoCall
  /\ loggedOut = FALSE
  /\ TableUnmounted
  /\ PortfolioUnmounted

InitOffers ==
  /\ SignedInOn("offers")
  /\ AuxIdle

offersQuiet == UNCHANGED <<sessionVars, tableVars, pmVars, formVars, httpVars>>

\* JSON.parse(JSON.stringify(data)): a new array of new objects, built from the
\* fields the offers of data hold now
DeepCopy(data) == [j \in 1..Len(data) |-> [id |-> data[j].id, title |-> data[j].title]]

\* Array.prototype.map with o => o.id === id ? {...o, ...updatedData} : o
MapUpdate(arr, id, updatedData) ==
  [j \in 1..Len(arr) |-> IF arr[j].id = id THEN updatedData ELSE arr[j]]

\* Array.prototype.filter with o => o.id !== id
FilterOut(arr, id) ==
  LET keep(o) == o.id # id IN SelectSeq(arr, keep)

\* getOffers(): mockApiRequest(mockOffers) keeps the array reference and arms
\* its 500 ms timer
getOffers ==
  /\ Len(offerCalls) < MaxOfferCalls
  /\ offerCalls' = Append(offerCalls,
                          [data |-> mockOffers, atCall |-> offersHeap[mockOffers]])
  /\ UNCHANGED <<offersHeap, mockOffers, offersResult, offerOps>>
  /\ offersQuiet

\* addOffer(offerData): mockOffers.push(newOffer), the array is changed in place
addOffer(title) ==
  /\ offerOps < MaxOfferOps
  /\ offerOps' = offerOps + 1
  /\ offersHeap' =
       [offersHeap EXCEPT ![mockOffers] =
          Append(@, [id |-> randomUUID(offerOps), title |-> title])]
  /\ UNCHANGED <<mockOffers, offerCalls, offersResult>>
  /\ offersQuiet

\* updateOffer(id, updatedData): mockOffers = mockOffers.map(...), a new array
updateOffer(id, title) ==
  /\ offerOps < MaxOfferOps
  /\ offerOps' = offerOps + 1
  /\ offersHeap' =
       Append(offersHeap,
              MapUpdate(offersHeap[mockOffers], id, [id |-> id, title |-> title]))
  /\ mockOffers' = Len(offersHeap) + 1
  /\ UNCHANGED <<offerCalls, offersResult>>
  /\ offersQuiet

\* deleteOffer(id): mockOffers = mockOffers.filter(...), a new array
deleteOffer(id) ==
  /\ offerOps < MaxOfferOps
  /\ offerOps' = offerOps + 1
  /\ offersHeap' = Append(offersHeap, FilterOut(offersHeap[mockOffers], id))
  /\ mockOffers' = Len(offersHeap) + 1
  /\ UNCHANGED <<offerCalls, offersResult>>
  /\ offersQuiet

\* the timer of the oldest getOffers fires: resolve(deep copy of data as it is now)
GetOffersResolve ==
  /\ offerCalls # <<>>
  /\ offersResult' = [data |-> DeepCopy(offersHeap[offerCalls[1].data]),
                      atCall |-> offerCalls[1].atCall,
                      resolved |-> TRUE]
  /\ offerCalls' = Tail(offerCalls)
  /\ UNCHANGED <<offersHeap, mockOffers, offerOps>>
  /\ offersQuiet

NextOffers ==
  \/ getOffers
  \/ \E title \in OfferTitles : addOffer(title)
  \/ \E id \in OfferIds, title \in OfferTitles : updateOffer(id, title)
  \/ \E id \in OfferIds : deleteOffer(id)
  \/ GetOffersResolve

SpecOffers == InitOffers /\ [][NextOffers]_vars


\* ------------------------------------------- mockApi.ts: apiRequest's result
Statuses == {200, 201, 204, 400, 401, 500}
Messages == {"", "Invalid credentials"}
Bodies ==
  {[kind |-> "text", hasMessage |-> FALSE, message |-> ""],
   [kind |-> "null", hasMessage |-> FALSE, message |-> ""],
   [kind |-> "object", hasMessage |-> FALSE, message |-> ""]}
  \cup {[kind |-> "object", hasMessage |-> TRUE, message |-> m] : m \in Messages}

\* Response.ok
ok(status) == status \in 200..299

\* the template literal `HTTP error! status: ${response.status}`
HttpErrorMsg(status) ==
  CASE status = 400 -> "HTTP error! status: 400"
    [] status = 401 -> "HTTP error! status: 401"
    [] status = 500 -> "HTTP error! status: 500"
    [] OTHER -> "HTTP error! status: ?"

UnknownErrorMsg == "An unknown error occurred"

Throws(class, msg) == [kind |-> "throws", error |-> class, message |-> msg, data |-> NoBody]
Returns(data) == [kind |-> "returns", error |-> "", message |-> "", data |-> data]
\* the JavaScript value null, as returned data
JsNull == [kind |-> "null", hasMessage |-> FALSE, message |-> ""]

\* response.json(): rejects with a SyntaxError on text that is not JSON
jsonRejects(body) == body.kind = "text"

\* errorData.message || fallback: an absent or empty message gives the fallback
messageOr(errorData, fallback) ==
  IF errorData.hasMessage /\ errorData.message # "" THEN errorData.message ELSE fallback

\* apiRequest from `if (!response.ok)` to its end, for the response r
settle(r) ==
  IF ~ok(r.status)
    THEN LET errorData ==
               IF jsonRejects(r.body)
                 THEN [kind |-> "object", hasMessage |-> TRUE, message |-> UnknownErrorMsg]
                 ELSE r.body
         IN  IF errorData.kind = "null"
               THEN Throws("TypeError", "Cannot read properties of null (reading 'message')")
               ELSE Throws("Error", messageOr(errorData, HttpErrorMsg(r.status)))
    ELSE IF r.status = 204 THEN Returns(JsNull)
    ELSE IF jsonRejects(r.body) THEN Throws("SyntaxError", "Unexpected token")
    ELSE Returns(r.body)

InitApi ==
  /\ SignedInOn("dashboard")
  /\ AuxIdle

apiQuiet == UNCHANGED <<sessionVars, tableVars, pmVars, formVars, offerVars>>

\* fetch() resolves with a response; a 204 response has no body
fetchResolves(status, body) ==
  /\ response = NoResponse
  /\ status = 204 => body.kind = "text"
  /\ response' = [status |-> status, body |-> body]
  /\ UNCHANGED outcome
  /\ apiQuiet

\* fetch() rejects (network failure): apiRequest rejects with that error
fetchRejects ==
  /\ response = NoResponse
  /\ outcome' = Throws("TypeError", "Failed to fetch")
  /\ UNCHANGED response
  /\ apiQuiet

\* the rest of apiRequest runs on the response
apiRequestSettle ==
  /\ response # NoResponse
  /\ outcome' = settle(response)
  /\ response' = NoResponse
  /\ apiQuiet

NextApi ==
  \/ \E status \in Statuses, body \in Bodies : fetchResolves(status, body)
  \/ fetchRejects
  \/ apiRequestSettle

SpecApi == InitApi /\ [][NextApi]_vars


Next ==
  \/ initialize
  \/ \E u \in Users : GetMeResolve(u)
  \/ GetMeReject
  \/ LoginSubmit
  \/ \E t \in Tokens, u \in Users : login(t, u)
  \/ LoginReject
  \/ logout
  \/ \E p \in validPages : setActivePage(p)
  \/ \E h \in Hashes : handleHashChange(h)
  \/ \E h \in Hashes : hashchangeUnheard(h)
  \/ \E u \in Users : updateUser(u)
  \/ \E q \in Searches : setSearchQuery(q)
  \/ ToastTimerFire
  \/ Reload
  \/ \E t \in Tokens, u \in Users : OtherTabLogin(t, u)
  \/ OtherTabLogout

Spec == Init /\ [][Next]_vars

\* ------------------------------------------------------- the session store
\* C1: a successful login(name, password) stores the returned token under
\* 'authToken' in sessionStorage and in localStorage, the returned user under
\* 'authUser' in localStorage, and leaves token, user and isAuthenticated = true
\* in memory.
C1_LoginPersists ==
  [][\A t \in Tokens, u \in Users :
        login(t, u) =>
          /\ sessionStorage' = t
          /\ localStorage'.authToken = t
          /\ localStorage'.authUser = JSONstringify(u)
          /\ token' = t
          /\ user' = u
          /\ isAuthenticated']_vars

C1_Witness ==
  \E u \in Users :
    /\ toastMessage = WelcomeMsg(u)
    /\ user = u
    /\ isAuthenticated
    /\ token \in Tokens
    /\ sessionStorage = token
    /\ localStorage.authToken = token

\* C2: initialize() takes the token from sessionStorage when it is there and
\* from localStorage otherwise, copying it into sessionStorage; with a token the
\* store holds it and is authenticated, without one it stays unauthenticated,
\* and initialization always ends with isLoading = false.
C2_Rehydrate ==
  [][/\ (pc = "boot" /\ pc' # "boot") =>
          LET found == IF sessionStorage # Null THEN sessionStorage
                                               ELSE localStorage.authToken
          IN  /\ found # Null =>
                   token' = found /\ isAuthenticated' /\ sessionStorage' = found
              /\ found = Null =>
                   token' = Null /\ ~isAuthenticated' /\ pc' = "ready"
     /\ (pc # "ready" /\ pc' = "ready") => ~isLoading']_vars

C2_Witness ==
  /\ pc = "ready"
  /\ ~isLoading
  /\ isAuthenticated
  /\ user = Null
  /\ token \in Tokens
  /\ sessionStorage = token
  /\ localStorage.authToken # token

\* C3: when getMe fails during initialization and localStorage holds a
\* parseable 'authUser', the in-memory user becomes that cached user; when getMe
\* succeeds the in-memory user is the fetched one and 'authUser' is overwritten
\* with it.
C3_CachedProfile ==
  [][/\ GetMeReject =>
          \A u \in Users : localStorage.authUser = JSONstringify(u) => user' = u
     /\ \A u \in Users :
          GetMeResolve(u) => user' = u /\ localStorage'.authUser = JSONstringify(u)]_vars

C3_Witness ==
  /\ pc = "ready"
  /\ toastMessage = CachedMsg
  /\ user \in Users
  /\ localStorage.authUser = JSONstringify(user)

\* C4: within one page life isAuthenticated goes from true to false only in
\* logout (a reload discards the whole store and initialize() rebuilds it); a
\* getMe failure during initialization leaves isAuthenticated true and does not
\* touch 'authToken' in either storage tier.
C4_NoAutoLogout ==
  [][/\ (isAuthenticated /\ ~isAuthenticated') => (logout \/ Reload)
     /\ (pc = "getMe" /\ pc' = "ready") =>
          /\ isAuthenticated'
          /\ sessionStorage' = sessionStorage
          /\ sessionStorage' \in Tokens
          /\ localStorage'.authToken = localStorage.authToken]_vars

C4_Witness ==
  /\ build = "part_002"
  /\ pc = "ready"
  /\ isAuthenticated
  /\ user = Null
  /\ sessionStorage \in Tokens
  /\ localStorage.authToken \in Tokens

\* C5: logout leaves token and user null, isAuthenticated false, activePage
\* 'products', no 'authToken' in sessionStorage or localStorage and no
\* 'authUser' in localStorage; an initialization that finds the two tiers as
\* logout left them ends unauthenticated.
C5_LogoutClears ==
  [][/\ logout =>
          /\ token' = Null
          /\ user' = Null
          /\ ~isAuthenticated'
          /\ activePage' = "products"
          /\ sessionStorage' = Null
          /\ localStorage'.authToken = Null
          /\ localStorage'.authUser = Null
     /\ (initialize /\ sessionStorage = Null /\ localStorage.authToken = Null) =>
          pc' = "ready" /\ ~isAuthenticated' /\ token' = Null]_vars

C5_Witness ==
  /\ toastMessage = LogoutMsg
  /\ pc = "ready"
  /\ ~isAuthenticated
  /\ token = Null
  /\ user = Null
  /\ activePage = "products"
  /\ hash = "orders"
  /\ sessionStorage = Null
  /\ localStorage = [authToken |-> Null, authUser |-> Null]

\* ------------------------------------------------------------ ProductTable
NumGets(q) == Cardinality({i \in DOMAIN q : q[i].kind = "getProducts"})

\* this step sends a getProducts request
FetchIssued == NumGets(inflight') > NumGets(inflight)

\* nothing of ProductTable is pending: no request in flight, no debounce timer
Quiescent == mounted /\ inflight = <<>> /\ ~debouncePending

\* C6: whenever the current page, the sort key or direction, or the debounced
\* search string changes, a getProducts request carrying the new values is
\* eventually sent; so once nothing is pending, the request sent last carries
\* the current page, search and sort.
C6_ChangeRefetches ==
  Quiescent =>
    /\ issued.page = currentPage
    /\ issued.search = debouncedSearchQuery
    /\ issued.sort = sortConfig

\* C7: a fetch whose debounced search string or sort differs from the values
\* recorded at the previous fetch asks for page 1 and leaves currentPage = 1.
\* (Stated for fetches whose own search and sort are the current ones.)
C7_FilterChangeResetsPage ==
  [][(/\ FetchIssued
      /\ issued'.search = debouncedSearchQuery
      /\ issued'.sort = sortConfig
      /\ \/ debouncedSearchQuery # prevFiltersRef.search
         \/ sortConfig.key # prevFiltersRef.sort.key
         \/ sortConfig.direction # prevFiltersRef.sort.direction)
       => (issued'.page = 1 /\ currentPage' = 1)]_vars

\* C8: a fetch whose debounced search string and sort equal the values
\* recorded at the previous fetch asks for the current page and leaves
\* currentPage unchanged.
\* (Stated for fetches whose own search and sort are the current ones.)
C8_SameFiltersKeepPage ==
  [][(/\ FetchIssued
      /\ issued'.search = debouncedSearchQuery
      /\ issued'.sort = sortConfig
      /\ debouncedSearchQuery = prevFiltersRef.search
      /\ sortConfig.key = prevFiltersRef.sort.key
      /\ sortConfig.direction = prevFiltersRef.sort.direction)
       => (issued'.page = currentPage /\ currentPage' = currentPage)]_vars

\* C9: one change of search, sort or page causes at most one getProducts
\* request: no step sends more than one, and the fetch that resets currentPage
\* from a later page to 1 sends exactly one.
C9_AtMostOneRequest ==
  [][/\ NumGets(inflight') <= NumGets(inflight) + 1
     /\ (FetchIssued /\ currentPage # 1 /\ currentPage' = 1) =>
          /\ NumGets(inflight') = NumGets(inflight) + 1
          /\ inflight'[Len(inflight')].page = 1]_vars

C9_Witness ==
  /\ products.page = 2
  /\ currentPage = 1
  /\ NumGets(inflight) = 1
  /\ Len(inflight) = 1
  /\ inflight[1].page = 1
  /\ inflight[1].sort = sortConfig
  /\ inflight[1].sort # prevFiltersRef.sort
  /\ issued.page = 1

\* C10: a failed product/category fetch, a failed delete and a failed save
\* each show a failure toast, and none of them is retried: the failed request
\* leaves and no request is sent in its place.
C10_FailuresToast ==
  [][\A i \in Slots :
        /\ FetchReject(i) =>
             toastMessage' = FetchFailedMsg /\ Len(inflight') = Len(inflight) - 1
        /\ DeleteReject(i) =>
             toastMessage' = DeleteFailedMsg /\ Len(inflight') = Len(inflight) - 1
        /\ SaveReject(i) =>
             toastMessage' = SaveFailedMsg /\ Len(inflight') = Len(inflight) - 1]_vars

C10_Witness ==
  /\ mounted
  /\ toastMessage = FetchFailedMsg
  /\ error = FetchError
  /\ ~tableLoading
  /\ inflight = <<>>

\* C21: every successful deletion is followed by a getProducts request; when
\* the deleted product was the only one on a page greater than 1, currentPage
\* is decremented by one and that page is the one fetched; currentPage never
\* drops below 1.
C21_DeleteRefetches ==
  [][\A i \in Slots :
        DeleteResolve(i) =>
          /\ FetchIssued
          /\ (inflight[i].plen = 1 /\ inflight[i].page > 1) =>
               (currentPage' = inflight[i].page - 1 /\ issued'.page = currentPage')
          /\ currentPage' >= 1]_vars

\* C22: when the add/update request succeeds the modal is closed (isModalOpen
\* false, editingProduct null) and the list is refetched; when it fails the
\* modal is left as it was, the failure toast is shown and no request is sent;
\* either way the settled request leaves isSubmitting false.
C22_SaveOutcome ==
  [][\A i \in Slots :
        /\ SaveResolve(i) =>
             /\ ~isModalOpen'
             /\ editingProduct' = Null
             /\ FetchIssued
             /\ ~isSubmitting'
        /\ SaveReject(i) =>
             /\ isModalOpen' = isModalOpen
             /\ editingProduct' = editingProduct
             /\ toastMessage' = SaveFailedMsg
             /\ ~FetchIssued
             /\ Len(inflight') = Len(inflight) - 1
             /\ ~isSubmitting']_vars

C22_Witness ==
  /\ mounted
  /\ isModalOpen
  /\ editingProduct \in ProductIds
  /\ ~isSubmitting
  /\ toastMessage = SaveFailedMsg
  /\ inflight = <<>>

\* C24: with several getProducts requests in flight and their responses
\* arriving in any order, once all have resolved the displayed products and the
\* recorded previous filters are those of the request issued last.
C24_LastIssuedWins ==
  (mounted /\ NumGets(inflight) = 0 /\ ~tableLoading /\ error = Null) =>
    /\ products.page = issued.page
    /\ products.search = issued.search
    /\ products.sort = issued.sort
    /\ prevFiltersRef = [search |-> issued.search, sort |-> issued.sort]

\* C26: handleSort(key) selects column key with direction 'descending' exactly
\* when the current key is key and the current direction is 'ascending', and
\* 'ascending' otherwise: clicks on one column alternate, a click on another
\* column gives ascending.
C26_SortToggle ==
  [][\A key \in SortKeys :
        handleSort(key) =>
          /\ sortConfig'.key = key
          /\ (sortConfig'.direction = "descending") <=>
               (sortConfig.key = key /\ sortConfig.direction = "ascending")
          /\ sortConfig'.direction \in {"ascending", "descending"}
          /\ sortConfig.key # key => sortConfig'.direction = "ascending"
          /\ (sortConfig.key = key /\ sortConfig.direction = "descending") =>
               sortConfig'.direction = "ascending"]_vars

C26_Witness ==
  /\ sortConfig = [key |-> "price", direction |-> "ascending"]
  /\ events = 3
  /\ mounted
  /\ NoModal
  /\ prevFiltersRef.sort = initialSort
  /\ products.sort = initialSort
  /\ products.len > 0

\* ------------------------------------------------------- the product form
\* C23: the form calls onSave, and so sends a request and sets isSubmitting,
\* only when every rule passes: name non-blank, category non-empty, price a
\* number >= 0, stock an integer >= 0, at least one specification, description
\* and sub heading non-blank; when a rule fails nothing is sent and
\* isSubmitting stays false.
C23_ValidatedSubmit ==
  [][handleSubmit =>
       LET rulesPass ==
             /\ formData.name \notin {"", " "}
             /\ formData.category # ""
             /\ formData.price \in {"0", "1.5"}
             /\ formData.stock \in {"0", "3"}
             /\ formData.specifications >= 1
             /\ formData.description \notin {"", " "}
             /\ formData.subHeading # ""
       IN  /\ rulesPass =>
                /\ Len(inflight') = Len(inflight) + 1
                /\ inflight'[Len(inflight')].kind = "save"
                /\ isSubmitting'
           /\ ~rulesPass =>
                /\ inflight' = inflight
                /\ ~isSubmitting'
                /\ formErrors' # {}]_vars

C23_Witness ==
  /\ formData.name = "Tent"
  /\ formData.category = "c1"
  /\ formData.price = ""
  /\ formData.stock = "0"
  /\ formData.specifications = 1
  /\ formData.description = "d"
  /\ formData.subHeading = "s"
  /\ formErrors = {"price"}
  /\ ~isSubmitting
  /\ inflight = <<>>

\* ------------------------------------------------- requests, App, routing
\* C12: a request sent through apiRequest (getMe during initialization, the
\* login request) carries 'Authorization: Bearer <token>' exactly when an
\* 'authToken' is in sessionStorage or localStorage at that moment, with the
\* sessionStorage value when both hold one; with neither, no such header.
C12_BearerHeader ==
  [][((pc = "boot" /\ pc' = "getMe") \/ LoginSubmit) =>
        /\ apiCall'.endpoint # Null
        /\ (apiCall'.Authorization # Null) <=>
             (sessionStorage' # Null \/ localStorage'.authToken # Null)
        /\ sessionStorage' # Null =>
             apiCall'.Authorization = Bearer(sessionStorage')
        /\ (sessionStorage' = Null /\ localStorage'.authToken # Null) =>
             apiCall'.Authorization = Bearer(localStorage'.authToken)]_vars

C12_Witness ==
  /\ pc = "getMe"
  /\ apiCall = [endpoint |-> "/auth/me", Authorization |-> "Bearer t1"]
  /\ sessionStorage = "t1"
  /\ localStorage.authToken = "t2"

\* C13: the shell is rendered only when isLoading is false and isAuthenticated
\* is true; while isLoading is true only the spinner is rendered; with isLoading
\* false and isAuthenticated false only the login page is rendered. The shell's
\* handlers run only from the shell and the login form only from the login page.
C13_ShellOnlyWhenReady ==
  /\ [](/\ App = "shell" => (~isLoading /\ isAuthenticated)
        /\ isLoading => App = "LoadingSpinner"
        /\ (~isLoading /\ ~isAuthenticated) => App = "LoginPage")
  /\ [][/\ (logout \/ (\E p \in validPages : setActivePage(p))
                   \/ (\E q \in Searches : setSearchQuery(q))) => App = "shell"
        /\ LoginSubmit => App = "LoginPage"]_vars

C13_Witness ==
  /\ pc = "getMe"
  /\ isLoading
  /\ isAuthenticated
  /\ token \in Tokens
  /\ App = "LoadingSpinner"

\* C14: in every reachable state of the session store isAuthenticated is true
\* if and only if the in-memory token is non-null.
C14_AuthIffToken == isAuthenticated <=> token # Null

C14_Witness ==
  /\ pc = "ready"
  /\ loggedOut
  /\ toastMessage = LogoutMsg
  /\ ~isAuthenticated
  /\ token = Null
  /\ loginPending

\* C15: whenever isAuthenticated is true and isLoading is false, the in-memory
\* user is non-null (so the header's user menu, with the logout control, is
\* rendered).
C15_UserWhenAuthenticated == (isAuthenticated /\ ~isLoading) => user # Null

\* C16: once a logout was the last login/logout of the browser, in whichever
\* tab, an initialization (reload) of this tab ends unauthenticated.
C16_LogoutReachesAllTabs ==
  [][(loggedOut /\ pc = "boot" /\ pc' # "boot") => ~isAuthenticated']_vars

\* C17: whenever activePage changes from 'products' to another page, by
\* whatever path, the search query is reset to the empty string.
C17_LeavingProductsClearsSearch ==
  [][(activePage = "products" /\ activePage' # "products") => searchQuery' = ""]_vars

\* C18: activePage is always one of the eight valid pages; a mounting provider
\* starts it as the URL hash when that names a valid page and as 'products'
\* otherwise; a hashchange to a value that is not a valid page leaves it as it
\* was.
C18_ActivePageValid ==
  /\ activePage = (IF hash \in validPages THEN hash ELSE "products")
  /\ [](activePage \in validPages)
  /\ [][/\ (pc # "boot" /\ pc' = "boot") =>
             activePage' = IF hash' \in validPages THEN hash' ELSE "products"
        /\ \A h \in Hashes :
             (handleHashChange(h) /\ h \notin validPages) => activePage' = activePage]_vars

C18_Witness ==
  /\ pc = "ready"
  /\ hash = "bogus"
  /\ activePage = "orders"

\* C19: after setActivePage and after a hashchange to a valid page the URL hash
\* equals activePage, and a logout from a state where it does leaves it so.
C19_HashReflectsPage ==
  [][/\ ((\E p \in validPages : setActivePage(p))
           \/ (\E h \in Hashes \cap validPages : handleHashChange(h)))
          => hash' = activePage'
     /\ (logout /\ hash = activePage) => hash' = activePage']_vars

\* C20: for the active page the App renders the component written for that
\* page, the one whose title the header shows; no other page renders the same
\* component.
C20_PageComponent ==
  App = "shell" =>
    /\ pageOf(renderPage(activePage)) = activePage
    /\ getPageConfig(pageOf(renderPage(activePage))) = getPageConfig(activePage)
    /\ \A q \in validPages :
         q # activePage => renderPage(q) # renderPage(activePage)

\* C28: after showToast(m) the toast message is m; a timer that fires leaves
\* the message empty; and a message shown while an earlier toast's timer is
\* still pending is cleared only by its own timer, the one armed last, never by
\* the earlier one.
C28_ToastOwnTimer ==
  [][/\ logout => toastMessage' = LogoutMsg
     /\ \A t \in Tokens, u \in Users : login(t, u) => toastMessage' = WelcomeMsg(u)
     /\ ToastTimerFire => toastMessage' = ""
     /\ (ToastTimerFire /\ toastMessage # "") => toastTimers' = 0]_vars

\* --------------------------------------------------------- PortfolioManager
\* C11: in PortfolioManager every failed API operation surfaces as a toast: a
\* failed fetch of a section's items, a failed save and a failed delete each
\* call showToast (one more timer armed) with their failure message.
C11_PortfolioFailuresToast ==
  [][\A i \in Slots :
        /\ PMFetchReject(i) =>
             /\ toastTimers' = toastTimers + 1
             /\ toastMessage' = PMFetchError(pmInflight[i].section)
        /\ handleSaveReject(i) =>
             /\ toastTimers' = toastTimers + 1
             /\ toastMessage' = PMSaveFailedMsg(pmInflight[i].section)
        /\ pmHandleDeleteReject(i) =>
             /\ toastTimers' = toastTimers + 1
             /\ toastMessage' = PMDeleteFailedMsg(pmInflight[i].section)]_vars

\* C25: when the section is switched while a fetch for the previous section
\* is in flight, whatever the order of the two responses, once both have
\* resolved the displayed items are those of the active section.
C25_ActiveSectionShown ==
  (/\ pmMounted
   /\ pmInflight = <<>>
   /\ ~pmIsLoading
   /\ pmError = Null) => portfolioItems.section = activeTab

\* ---------------------------------------------------------- the mock store
\* C27: the result of a getOffers call holds exactly the offers that were in
\* the store when getOffers was called, whatever addOffer, updateOffer or
\* deleteOffer calls were made before its promise resolved.
C27_GetOffersSnapshot ==
  [][GetOffersResolve => offersResult'.data = offerCalls[1].atCall]_vars

\* C29: for a response that is not ok apiRequest throws an Error whose message
\* is the body's 'message' when present and non-empty, 'An unknown error
\* occurred' when the body is not JSON, and 'HTTP error! status: <status>' when
\* the JSON body has no message; an ok response with status 204 gives null and
\* any other ok response gives the parsed JSON body.
C29_ErrorsAsThrownValues ==
  [][apiRequestSettle =>
       LET r == response
           b == response.body
       IN  /\ (~ok(r.status) /\ b.kind = "object" /\ b.hasMessage /\ b.message # "") =>
                outcome' = Throws("Error", b.message)
           /\ (~ok(r.status) /\ b.kind = "text") =>
                outcome' = Throws("Error", UnknownErrorMsg)
           /\ (~ok(r.status) /\ b.kind \in {"object", "null"} /\ ~b.hasMessage) =>
                outcome' = Throws("Error", HttpErrorMsg(r.status))
           /\ (ok(r.status) /\ r.status = 204) => outcome' = Returns(JsNull)
           /\ (ok(r.status) /\ r.status # 204) => outcome' = Returns(b)]_vars

TypeOK ==
  /\ build \in Builds
  /\ activeTab \in Tabs
  /\ itemToDelete \in PortfolioItemIds \cup {Null}
  /\ itemToEdit \in PortfolioItemIds \cup {Null}
  /\ Len(pmInflight) <= MaxInFlight
  /\ loggedOut \in BOOLEAN
  /\ pc \in {"boot", "getMe", "ready"}
  /\ activePage \in validPages
  /\ token \in Tokens \cup {Null}
  /\ user \in Users \cup {Null}
  /\ toastTimers \in 0..MaxTimers
====
